---- MODULE Spec2Model ----
(***************************************************************************)
(* The adaptive quadtree of g_star.py: Node, FractalGrid, the decay and    *)
(* controller threads, the writer loop and the GUI callbacks.              *)
(*                                                                         *)
(* Numbers.  Loads are Python floats.  A load is modelled as an integer    *)
(* number of quanta, Unit quanta to 1.0.  Unit is a power of 4, so the     *)
(* division by 4.0 of subdivide is exact here as it is in binary floating  *)
(* point; the one rounding operation of the code, the product              *)
(* load * decay_factor, rounds here to a multiple of Grid quanta.          *)
(* Coordinates are integers, CoordRes to 1.0; CoordRes is a power of 2     *)
(* large enough that every midpoint the model can compute is an integer.   *)
(*                                                                         *)
(* Nodes.  A Node object is named by its path from the root (the sequence  *)
(* of quadrant keys 0..3); Node.parent is the path without its last key.   *)
(***************************************************************************)
EXTENDS Integers, Sequences, FiniteSets, TLC

\* ------------------------------------------------------------- bounds
\* deepest max_level a construction may configure
MaxLevelCap == 2
\* get/set are taken only while the tree's total load stays <= MaxLoad
MaxLoad == 3

\* ------------------------------------------------------------- numbers
Unit == 4 * 4 * 4 * 4 * 4 * 4 * 4 * 4 * 4 * 4 * 4 * 4 * 4 * 4
Grid == 4 ^ MaxLoad
CoordRes == 2 ^ (MaxLevelCap + 2)
\* g_star.py:136, the literal 1e-6: the least number of quanta that is not
\* below it (1e-6 lies between two whole numbers of quanta)
ClampBelow == Unit \div 1000000 + 1

Keys == 0 .. 3

RECURSIVE PathsOfLen(_)
PathsOfLen(n) ==
    IF n = 0 THEN {<<>>}
    ELSE {Append(p, k) : p \in PathsOfLen(n - 1), k \in Keys}

Paths == UNION {PathsOfLen(n) : n \in 0 .. MaxLevelCap}

Root == <<>>

Child(p, k) == Append(p, k)

IsPrefix(p, q) ==
    /\ Len(p) <= Len(q)
    /\ \A i \in 1 .. Len(p) : p[i] = q[i]

IsProperPrefix(p, q) == IsPrefix(p, q) /\ Len(p) < Len(q)

RECURSIVE SumOver(_, _)
SumOver(S, f) ==
    IF S = {} THEN 0
    ELSE LET e == CHOOSE e \in S : TRUE
         IN f[e] + SumOver(S \ {e}, f)

MinOf(S) == CHOOSE m \in S : \A n \in S : m <= n

\* ------------------------------------------------------------- Node
\* Node.__init__: a fresh leaf with load 0.0
Node(x_min, y_min, x_max, y_max, level) ==
    [x_min |-> x_min, y_min |-> y_min, x_max |-> x_max, y_max |-> y_max,
     level |-> level, children |-> FALSE, load |-> 0]

is_leaf(n) == ~n.children

contains(n, x, y) ==
    /\ n.x_min <= x /\ x < n.x_max
    /\ n.y_min <= y /\ y < n.y_max

\* Quadrant with the lower-right child starting at x_min instead of mid_x
QuadrantOverlap(n, k) ==
    LET mid_x == (n.x_min + n.x_max) \div 2
        mid_y == (n.y_min + n.y_max) \div 2
    IN CASE k = 0 -> Node(n.x_min, n.y_min, mid_x, mid_y, n.level + 1)
         [] k = 1 -> Node(n.x_min, n.y_min, n.x_max, mid_y, n.level + 1)
         [] k = 2 -> Node(n.x_min, mid_y, mid_x, n.y_max, n.level + 1)
         [] k = 3 -> Node(mid_x, mid_y, n.x_max, n.y_max, n.level + 1)

\* Quadrant with the lower-right child starting one step right of mid_x, so
\* the column at mid_x belongs to no child
QuadrantGap(n, k) ==
    LET mid_x == (n.x_min + n.x_max) \div 2
        mid_y == (n.y_min + n.y_max) \div 2
    IN CASE k = 0 -> Node(n.x_min, n.y_min, mid_x, mid_y, n.level + 1)
         [] k = 1 -> Node(mid_x + 1, n.y_min, n.x_max, mid_y, n.level + 1)
         [] k = 2 -> Node(n.x_min, mid_y, mid_x, n.y_max, n.level + 1)
         [] k = 3 -> Node(mid_x, mid_y, n.x_max, n.y_max, n.level + 1)

\* the four Node(...) constructor calls of subdivide, by key
Quadrant(n, k) ==
    LET mid_x == (n.x_min + n.x_max) \div 2
        mid_y == (n.y_min + n.y_max) \div 2
    IN CASE k = 0 -> Node(n.x_min, n.y_min, mid_x, mid_y, n.level + 1)
         [] k = 1 -> Node(mid_x, n.y_min, n.x_max, mid_y, n.level + 1)
         [] k = 2 -> Node(n.x_min, mid_y, mid_x, n.y_max, n.level + 1)
         [] k = 3 -> Node(mid_x, mid_y, n.x_max, n.y_max, n.level + 1)

Kids(p) == {Child(p, k) : k \in Keys}

\* subdivide, first statement: self.children = {0: Node(..), .., 3: Node(..)}
subdivide_install(t, p) ==
    [q \in DOMAIN t \cup Kids(p) |->
        IF q = p THEN [t[p] EXCEPT !.children = TRUE]
        ELSE IF q \in Kids(p) THEN Quadrant(t[p], q[Len(q)])
        ELSE t[q]]

\* subdivide, the loop: child.load = self.load / 4.0
subdivide_distribute(t, p) ==
    LET distributed_load == t[p].load \div 4
    IN [q \in DOMAIN t |->
          IF q \in Kids(p) THEN [t[q] EXCEPT !.load = distributed_load]
          ELSE t[q]]

\* subdivide, last assignment: self.load = 0.0
subdivide_zero(t, p) == [t EXCEPT ![p].load = 0]

subdivide(t, p) == subdivide_zero(subdivide_distribute(subdivide_install(t, p), p), p)

ChildLoadSum(t, p) ==
    SumOver(Kids(p), [q \in Kids(p) |-> t[q].load])

\* load > k and load < k for a float load and an int threshold k, without
\* forming k * Unit
exceeds(load, k) == load \div Unit > k \/ (load \div Unit = k /\ load % Unit > 0)

\* the comparison of can_merge made with <= instead of <
below_or_equal(load, k) == load \div Unit < k \/ (load \div Unit = k /\ load % Unit = 0)

below(load, k) == load \div Unit < k

can_merge(t, p, merge_thr) ==
    IF is_leaf(t[p]) THEN FALSE
    ELSE IF \E q \in Kids(p) : ~is_leaf(t[q]) THEN FALSE
    ELSE below(ChildLoadSum(t, p), merge_thr)

\* merge: self.children = None drops the whole subtree below p
merge_detach(t, p) ==
    [q \in {r \in DOMAIN t : ~IsProperPrefix(p, r)} |->
        IF q = p THEN [t[p] EXCEPT !.children = FALSE] ELSE t[q]]

merge(t, p) ==
    LET total_load == ChildLoadSum(t, p)
    IN [merge_detach(t, p) EXCEPT ![p].load = total_load]

\* ------------------------------------------------------------- FractalGrid
\* validate_coord accepting the upper end 1.0
validate_coord_closed(x) == 0 <= x /\ x <= CoordRes

validate_coord(x) == 0 <= x /\ x < CoordRes

RECURSIVE find_leaf_from(_, _, _, _)
find_leaf_from(t, current, x, y) ==
    IF is_leaf(t[current]) THEN current
    ELSE LET hits == {k \in Keys : contains(t[Child(current, k)], x, y)}
         IN IF hits = {} THEN current
            ELSE find_leaf_from(t, Child(current, MinOf(hits)), x, y)

find_leaf(t, x, y) == find_leaf_from(t, Root, x, y)

add_load(t, p) == [t EXCEPT ![p].load = @ + Unit]

\* get going on to _rebalance the leaf, as set does
get_rebalancing(t, x, y) ==
    IF exceeds(add_load(t, find_leaf(t, x, y))[find_leaf(t, x, y)].load, 1)
       /\ t[find_leaf(t, x, y)].level < MaxLevelCap
       /\ is_leaf(t[find_leaf(t, x, y)])
    THEN subdivide(add_load(t, find_leaf(t, x, y)), find_leaf(t, x, y))
    ELSE add_load(t, find_leaf(t, x, y))

\* get, the body under the lock
get(t, x, y) == add_load(t, find_leaf(t, x, y))

\* _rebalance without the test node.level < self.max_level
rebalance_nocap(t, p, max_lvl, split_thr) ==
    IF exceeds(t[p].load, split_thr) /\ is_leaf(t[p])
    THEN subdivide(t, p)
    ELSE t

rebalance(t, p, max_lvl, split_thr) ==
    IF exceeds(t[p].load, split_thr) /\ t[p].level < max_lvl /\ is_leaf(t[p])
    THEN subdivide(t, p)
    ELSE t

\* set, the body under the lock
set(t, x, y, max_lvl, split_thr) ==
    LET leaf == find_leaf(t, x, y)
    IN rebalance(add_load(t, leaf), leaf, max_lvl, split_thr)

\* _merge_repeatedly testing can_merge on the way down, before the children
\* are swept, instead of on the way back up
RECURSIVE merge_order_preorder(_, _, _)
merge_order_preorder(t, p, merge_thr) ==
    IF is_leaf(t[p]) THEN [t |-> t, merged |-> <<>>]
    ELSE IF can_merge(t, p, merge_thr)
    THEN [t |-> merge(t, p), merged |-> <<p>>]
    ELSE LET a == merge_order_preorder(t, Child(p, 0), merge_thr)
             b == merge_order_preorder(a.t, Child(p, 1), merge_thr)
             c == merge_order_preorder(b.t, Child(p, 2), merge_thr)
             d == merge_order_preorder(c.t, Child(p, 3), merge_thr)
         IN [t |-> d.t, merged |-> a.merged \o b.merged \o c.merged \o d.merged]

\* the nodes _merge_repeatedly merges, in the order it merges them
RECURSIVE merge_order(_, _, _)
merge_order(t, p, merge_thr) ==
    IF is_leaf(t[p]) THEN [t |-> t, merged |-> <<>>]
    ELSE LET a == merge_order(t, Child(p, 0), merge_thr)
             b == merge_order(a.t, Child(p, 1), merge_thr)
             c == merge_order(b.t, Child(p, 2), merge_thr)
             d == merge_order(c.t, Child(p, 3), merge_thr)
             prior == a.merged \o b.merged \o c.merged \o d.merged
         IN IF can_merge(d.t, p, merge_thr)
            THEN [t |-> merge(d.t, p), merged |-> Append(prior, p)]
            ELSE [t |-> d.t, merged |-> prior]

merge_repeatedly(t, p, merge_thr) == merge_order(t, p, merge_thr).t

periodic_rebalance(t, merge_thr) == merge_repeatedly(t, Root, merge_thr)

\* n.load * decay_factor computed and thrown away: the load stays as it was
times_unassigned(load, f) == load

\* n.load *= decay_factor, the factor a fraction f.num / f.den
times(load, f) ==
    IF f.num = f.den THEN load
    ELSE LET q == load \div f.den
             r == load % f.den
             product == q * f.num + (r * f.num) \div f.den
         IN (product \div Grid) * Grid

\* decay without the test against 1e-6
decay_leaf_unclamped(load, f) == times(load, f)

decay_leaf(load, f) ==
    LET product == times(load, f)
    IN IF product < ClampBelow THEN 0 ELSE product

\* decay_load without the recursion into the children of an internal node:
\* only a root that is a leaf decays
decay_load_root_only(t, f) ==
    [q \in DOMAIN t |->
        IF q = Root /\ is_leaf(t[q]) THEN [t[q] EXCEPT !.load = decay_leaf(@, f)] ELSE t[q]]

decay_load(t, f) ==
    [q \in DOMAIN t |->
        IF is_leaf(t[q]) THEN [t[q] EXCEPT !.load = decay_leaf(@, f)] ELSE t[q]]

RECURSIVE gather(_, _)
gather(t, p) ==
    IF is_leaf(t[p]) THEN <<p>>
    ELSE gather(t, Child(p, 0)) \o gather(t, Child(p, 1))
         \o gather(t, Child(p, 2)) \o gather(t, Child(p, 3))

get_leaves(t) == gather(t, Root)

\* ------------------------------------------------------------- state
VARIABLES
    tree,             \* FractalGrid.root and everything below it: path -> Node
    max_level,        \* FractalGrid.max_level
    split_threshold,  \* FractalGrid.split_threshold
    merge_threshold,  \* FractalGrid.merge_threshold
    decay_factor,     \* FractalGrid.decay_factor, a fraction [num, den]
    decay_interval,   \* FractalGrid.decay_interval, in tenths of a second
    ret,              \* what the latest call handed its caller
    lock,             \* FractalGrid.lock, a threading.RLock: owner and depth
    pc,               \* where each thread stands in its code
    loc,              \* each thread's local variables
    running,          \* LoadDecayThread.running, GlobalAdaptiveController.running
    pause_event,      \* the threading.Event shared with the writers
    seqTree           \* history: the tree the operations so far give when run
                      \* one after another in the order they took the lock

threads == <<lock, pc, loc, running, pause_event, seqTree>>

vars == <<tree, max_level, split_threshold, merge_threshold, decay_factor,
          decay_interval, ret, threads>>

config == <<max_level, split_threshold, merge_threshold, decay_factor, decay_interval>>

None == -1

\* the (x_min, y_min, x_max, y_max) a construction passes: the default unit
\* square, and a rectangle that covers only part of it
BoundsChoices ==
    {<<0, 0, CoordRes, CoordRes>>, <<0, 0, CoordRes \div 2, CoordRes>>}

SplitChoices == {1, 2}
MergeChoices == {2, 10}
DecayChoices == {[num |-> 1, den |-> 1], [num |-> 1, den |-> 1048576]}

\* points handed to get and set.  Valid ones: the two sides of the centre
\* that worker_loop samples around; invalid ones: each coordinate below 0
\* and at 1.0
Half == CoordRes \div 2

ValidPoints == {<<Half - 1, Half - 1>>, <<Half, Half>>}

InvalidPoints == {<<-1, Half>>, <<CoordRes, Half>>, <<Half, -1>>, <<Half, CoordRes>>}

TestPoints == ValidPoints \cup InvalidPoints

LeafLoad(t) ==
    SumOver({q \in DOMAIN t : is_leaf(t[q])}, [q \in DOMAIN t |-> t[q].load])

AllLoad(t) == SumOver(DOMAIN t, [q \in DOMAIN t |-> t[q].load])

HasRoom(t) == AllLoad(t) \div Unit < MaxLoad

\* a call's outcome: how it ended, the float it returned (get), the list it
\* returned (get_leaves)
Returned(value, lst) == [status |-> "ok", value |-> value, leaves |-> lst]

Raised == [status |-> "ValueError", value |-> None, leaves |-> <<>>]

\* ------------------------------------------------------------- threads
\* writer threads started by __main__ (the program starts 4)
NumWriters == 2

Decay == <<"decay", 0>>
Controller == <<"controller", 0>>
Main == <<"main", 0>>
Writers == {<<"writer", i>> : i \in 1 .. NumWriters}
Maintenance == {Decay, Controller}
Tasks == Writers \cup Maintenance \cup {Main}

NoTask == <<"none", 0>>

NoLocals ==
    [x |-> 0, y |-> 0, leaf |-> Root, arg |-> [num |-> 1, den |-> 1],
     todo |-> <<>>, total |-> 0, field |-> "none", val |-> 0, leaves |-> <<>>]

Unlocked == [owner |-> NoTask, count |-> 0]

ThreadsInit ==
    /\ lock = Unlocked
    /\ pc = [t \in Tasks |->
               IF t \in Writers THEN "poll" ELSE IF t = Main THEN "idle" ELSE "check"]
    /\ loc = [t \in Tasks |-> NoLocals]
    /\ running = [t \in Maintenance |-> TRUE]
    /\ pause_event = FALSE
    /\ seqTree = tree

\* FractalGrid.__init__
Init ==
    /\ \E b \in BoundsChoices :
          tree = [q \in {Root} |-> Node(b[1], b[2], b[3], b[4], 0)]
    /\ max_level \in {MaxLevelCap - 1, MaxLevelCap}
    /\ split_threshold \in SplitChoices
    /\ merge_threshold \in MergeChoices
    /\ decay_factor \in DecayChoices
    /\ decay_interval = 10
    /\ ret = Returned(None, <<>>)
    /\ ThreadsInit

\* ------------------------------------------------------------- operations
\* Each action below is one whole call of a public operation (or one whole
\* GUI callback), taken as a single step: the call holds the lock from its
\* first statement to its last.
Get(x, y) ==
    IF ~validate_coord(x) \/ ~validate_coord(y)
    THEN /\ ret' = Raised
         /\ UNCHANGED <<tree, config, threads>>
    ELSE /\ HasRoom(tree)
         /\ tree' = get(tree, x, y)
         /\ ret' = Returned(tree'[find_leaf(tree, x, y)].load, <<>>)
         /\ UNCHANGED <<config, threads>>

Set(x, y) ==
    IF ~validate_coord(x) \/ ~validate_coord(y)
    THEN /\ ret' = Raised
         /\ UNCHANGED <<tree, config, threads>>
    ELSE /\ HasRoom(tree)
         /\ tree' = set(tree, x, y, max_level, split_threshold)
         /\ ret' = Returned(None, <<>>)
         /\ UNCHANGED <<config, threads>>

PeriodicRebalance ==
    /\ tree' = periodic_rebalance(tree, merge_threshold)
    /\ ret' = Returned(None, <<>>)
    /\ UNCHANGED <<config, threads>>

\* one iteration of LoadDecayThread.run: decay_load(grid.decay_factor)
DecayLoad ==
    /\ tree' = decay_load(tree, decay_factor)
    /\ ret' = Returned(None, <<>>)
    /\ UNCHANGED <<config, threads>>

\* get_leaves returns the Node objects themselves: the list holds references
\* (paths), not copies
GetLeaves ==
    /\ ret' = Returned(None, get_leaves(tree))
    /\ UNCHANGED <<tree, config, threads>>

SliderSplitCb(val) ==
    /\ split_threshold' = val
    /\ tree' = periodic_rebalance(tree, merge_threshold)
    /\ ret' = Returned(None, <<>>)
    /\ UNCHANGED <<max_level, merge_threshold, decay_factor, decay_interval, threads>>

SliderMergeCb(val) ==
    /\ merge_threshold' = val
    /\ tree' = periodic_rebalance(tree, val)
    /\ ret' = Returned(None, <<>>)
    /\ UNCHANGED <<max_level, split_threshold, decay_factor, decay_interval, threads>>

SliderDecayCb(val) ==
    /\ decay_factor' = val
    /\ ret' = Returned(None, <<>>)
    /\ UNCHANGED <<tree, max_level, split_threshold, merge_threshold, decay_interval,
                   threads>>

Next ==
    \/ \E pt \in TestPoints : Get(pt[1], pt[2])
    \/ \E pt \in TestPoints : Set(pt[1], pt[2])
    \/ PeriodicRebalance
    \/ DecayLoad
    \/ GetLeaves
    \/ \E val \in SplitChoices : SliderSplitCb(val)
    \/ \E val \in MergeChoices : SliderMergeCb(val)
    \/ \E val \in DecayChoices : SliderDecayCb(val)

Spec == Init /\ [][Next]_vars

\* ------------------------------------------------------------- threads, step by step
\* The program of __main__: NumWriters writer threads (worker_loop), the
\* decay thread, the controller thread, and the main thread, which runs the
\* GUI event loop (update_anim, the slider callbacks, toggle_pause) and, when
\* the window closes, the shutdown lines.  A step is one statement, or a run
\* of statements that touch nothing another thread can see.

\* sets are started only while the tree's total load is below ConcMaxLoad
ConcMaxLoad == 2

\* the points worker_loop samples, uniform(0.45, 0.55) on both axes: the centre
WorkerPoints == {<<Half, Half>>}

ConcInit ==
    /\ tree = [q \in {Root} |-> Node(0, 0, CoordRes, CoordRes, 0)]
    /\ max_level = 1
    /\ split_threshold = 1
    /\ merge_threshold = 2
    /\ decay_factor = [num |-> 1, den |-> 1048576]
    /\ decay_interval = 10
    /\ ret = Returned(None, <<>>)
    /\ ThreadsInit

Alive == pc[Main] # "exited"

\* a lock that lets every caller in
CanAcquireAny(t) == TRUE

\* a plain threading.Lock in the place of the RLock: the holder cannot take
\* it a second time
CanAcquirePlain(t) == lock.owner = NoTask

\* threading.RLock: free, or already held by the caller
CanAcquire(t) == lock.owner = NoTask \/ lock.owner = t

Acquired(t) == [owner |-> t, count |-> lock.count + 1]

Released(t) ==
    IF lock.count = 1 THEN Unlocked ELSE [owner |-> t, count |-> lock.count - 1]

Goto(t, label) == pc' = [pc EXCEPT ![t] = label]

SetLoc(t, l) == loc' = [loc EXCEPT ![t] = l]

\* ---- worker_loop
\* worker_loop without the test of pause_event
WPollUnpaused(t) ==
    /\ Alive /\ pc[t] = "poll"
    /\ pc' = [pc EXCEPT ![t] = "call_set"]
    /\ UNCHANGED <<tree, config, ret, lock, loc, running, pause_event, seqTree>>

WPoll(t) ==
    /\ Alive /\ pc[t] = "poll"
    /\ IF pause_event THEN Goto(t, "pause_sleep") ELSE Goto(t, "call_set")
    /\ UNCHANGED <<tree, config, ret, lock, loc, running, pause_event, seqTree>>

WPauseSleep(t) ==
    /\ Alive /\ pc[t] = "pause_sleep"
    /\ Goto(t, "poll")
    /\ UNCHANGED <<tree, config, ret, lock, loc, running, pause_event, seqTree>>

\* the two random.uniform draws, then grid.set(x, y): validate_coord on x
\* and y, then "with self.lock"
SetEnter(t) ==
    /\ Alive /\ pc[t] = "call_set"
    /\ \E pt \in WorkerPoints :
         IF ~validate_coord(pt[1]) \/ ~validate_coord(pt[2])
         THEN Goto(t, "raised") /\ UNCHANGED <<lock, loc, seqTree>>
         ELSE /\ CanAcquire(t)
              /\ AllLoad(tree) \div Unit < ConcMaxLoad
              /\ lock' = Acquired(t)
              /\ SetLoc(t, [NoLocals EXCEPT !.x = pt[1], !.y = pt[2]])
              /\ seqTree' = set(seqTree, pt[1], pt[2], max_level, split_threshold)
              /\ Goto(t, "set_find")
    /\ UNCHANGED <<tree, config, ret, running, pause_event>>

\* leaf = self._find_leaf(self.root, x, y), which takes the lock again for
\* its own body and gives it back on return; then leaf.load += 1.0
SetFindAdd(t) ==
    /\ Alive /\ pc[t] = "set_find"
    /\ CanAcquire(t)
    /\ SetLoc(t, [loc[t] EXCEPT !.leaf = find_leaf(tree, loc[t].x, loc[t].y)])
    /\ tree' = add_load(tree, find_leaf(tree, loc[t].x, loc[t].y))
    /\ Goto(t, "set_rebalance")
    /\ UNCHANGED <<config, ret, lock, running, pause_event, seqTree>>

\* self._rebalance(leaf): the test, and subdivide's first statement; without
\* a subdivision the "with" block ends here
SetRebalance(t) ==
    /\ Alive /\ pc[t] = "set_rebalance"
    /\ LET leaf == loc[t].leaf
       IN IF exceeds(tree[leaf].load, split_threshold) /\ tree[leaf].level < max_level
             /\ is_leaf(tree[leaf])
          THEN /\ tree' = subdivide_install(tree, leaf)
               /\ Goto(t, "sub_distribute")
               /\ UNCHANGED <<lock, loc>>
          ELSE /\ lock' = Released(t)
               /\ SetLoc(t, NoLocals)
               /\ Goto(t, "sleep")
               /\ UNCHANGED tree
    /\ UNCHANGED <<config, ret, running, pause_event, seqTree>>

SubDistribute(t) ==
    /\ Alive /\ pc[t] = "sub_distribute"
    /\ tree' = subdivide_distribute(tree, loc[t].leaf)
    /\ Goto(t, "sub_zero")
    /\ UNCHANGED <<config, ret, lock, loc, running, pause_event, seqTree>>

\* self.load = 0.0, and the end of set's "with" block
SubZero(t) ==
    /\ Alive /\ pc[t] = "sub_zero"
    /\ tree' = subdivide_zero(tree, loc[t].leaf)
    /\ lock' = Released(t)
    /\ SetLoc(t, NoLocals)
    /\ Goto(t, "sleep")
    /\ UNCHANGED <<config, ret, running, pause_event, seqTree>>

\* time.sleep(0.005)
WSleep(t) ==
    /\ Alive /\ pc[t] = "sleep"
    /\ Goto(t, "poll")
    /\ UNCHANGED <<tree, config, ret, lock, loc, running, pause_event, seqTree>>

\* ---- the loops of LoadDecayThread.run and GlobalAdaptiveController.run
\* a loop that never looks at the flag
LoopCondAlways(t) == TRUE

\* "while self.running"
LoopCond(t) == running[t]

LoopCheck(t) ==
    /\ Alive /\ pc[t] = "check"
    /\ IF LoopCond(t) THEN Goto(t, "sleep") ELSE Goto(t, "done")
    /\ UNCHANGED <<tree, config, ret, lock, loc, running, pause_event, seqTree>>

\* time.sleep(self.grid.decay_interval) reads decay_interval; when the sleep
\* is over the argument of self.grid.decay_load(self.grid.decay_factor) is
\* read, before the call and so before the lock is taken
DecaySleep ==
    /\ Alive /\ pc[Decay] = "sleep"
    /\ SetLoc(Decay, [NoLocals EXCEPT !.arg = decay_factor])
    /\ Goto(Decay, "decay_lock")
    /\ UNCHANGED <<tree, config, ret, lock, running, pause_event, seqTree>>

DecayEnter ==
    /\ Alive /\ pc[Decay] = "decay_lock"
    /\ CanAcquire(Decay)
    /\ lock' = Acquired(Decay)
    /\ seqTree' = decay_load(seqTree, loc[Decay].arg)
    /\ Goto(Decay, "decay_body")
    /\ UNCHANGED <<tree, config, ret, loc, running, pause_event>>

\* the body of decay_load and the end of its "with" block; the print that
\* follows the call reads decay_factor again and changes nothing
DecayBody ==
    /\ Alive /\ pc[Decay] = "decay_body"
    /\ tree' = decay_load(tree, loc[Decay].arg)
    /\ lock' = Released(Decay)
    /\ SetLoc(Decay, NoLocals)
    /\ Goto(Decay, "check")
    /\ UNCHANGED <<config, ret, running, pause_event, seqTree>>

\* time.sleep(self.interval)
ControllerSleep ==
    /\ Alive /\ pc[Controller] = "sleep"
    /\ Goto(Controller, "print_lock")
    /\ UNCHANGED <<tree, config, ret, lock, loc, running, pause_event, seqTree>>

ControllerPrintEnter ==
    /\ Alive /\ pc[Controller] = "print_lock"
    /\ CanAcquire(Controller)
    /\ lock' = Acquired(Controller)
    /\ Goto(Controller, "print")
    /\ UNCHANGED <<tree, config, ret, loc, running, pause_event, seqTree>>

\* the print of split_threshold and merge_threshold, and the end of the block
ControllerPrint ==
    /\ Alive /\ pc[Controller] = "print"
    /\ lock' = Released(Controller)
    /\ Goto(Controller, "rebal_lock")
    /\ UNCHANGED <<tree, config, ret, loc, running, pause_event, seqTree>>

\* ---- periodic_rebalance, called by the controller and by two sliders
AfterRebalance(t) == IF t = Main THEN "idle" ELSE "check"

RebalEnter(t) ==
    /\ Alive /\ pc[t] = "rebal_lock"
    /\ CanAcquire(t)
    /\ lock' = Acquired(t)
    /\ seqTree' = periodic_rebalance(seqTree, merge_threshold)
    /\ SetLoc(t, [NoLocals EXCEPT
                    !.todo = merge_order(tree, Root, merge_threshold).merged])
    /\ Goto(t, "rebal_next")
    /\ UNCHANGED <<tree, config, ret, running, pause_event>>

\* the traversal up to the next node it merges; merge's statements up to
\* self.children = None.  With nothing left to merge the block ends.
RebalNext(t) ==
    /\ Alive /\ pc[t] = "rebal_next"
    /\ IF loc[t].todo = <<>>
       THEN /\ lock' = Released(t)
            /\ SetLoc(t, NoLocals)
            /\ Goto(t, AfterRebalance(t))
            /\ UNCHANGED tree
       ELSE /\ SetLoc(t, [loc[t] EXCEPT !.total = ChildLoadSum(tree, Head(loc[t].todo))])
            /\ tree' = merge_detach(tree, Head(loc[t].todo))
            /\ Goto(t, "merge_assign")
            /\ UNCHANGED lock
    /\ UNCHANGED <<config, ret, running, pause_event, seqTree>>

\* self.load = total_load
MergeAssign(t) ==
    /\ Alive /\ pc[t] = "merge_assign"
    /\ tree' = [tree EXCEPT ![Head(loc[t].todo)].load = loc[t].total]
    /\ SetLoc(t, [loc[t] EXCEPT !.todo = Tail(@), !.total = 0])
    /\ Goto(t, "rebal_next")
    /\ UNCHANGED <<config, ret, lock, running, pause_event, seqTree>>

\* ---- the main thread: the GUI event loop
\* the animation timer fires: update_anim(frame, grid, ax, max_level) is called
AnimInvoke ==
    /\ Alive /\ pc[Main] = "idle"
    /\ Goto(Main, "anim_lock")
    /\ UNCHANGED <<tree, config, ret, lock, loc, running, pause_event, seqTree>>

\* update_anim: "with grid.lock"
AnimEnter ==
    /\ Alive /\ pc[Main] = "anim_lock"
    /\ CanAcquire(Main)
    /\ lock' = Acquired(Main)
    /\ Goto(Main, "anim_call")
    /\ UNCHANGED <<tree, config, ret, loc, running, pause_event, seqTree>>

\* grid.get_leaves(): its own "with self.lock"
AnimGetLeavesEnter ==
    /\ Alive /\ pc[Main] = "anim_call"
    /\ CanAcquire(Main)
    /\ lock' = Acquired(Main)
    /\ Goto(Main, "anim_gather")
    /\ UNCHANGED <<tree, config, ret, loc, running, pause_event, seqTree>>

AnimGather ==
    /\ Alive /\ pc[Main] = "anim_gather"
    /\ SetLoc(Main, [NoLocals EXCEPT !.leaves = get_leaves(tree)])
    /\ lock' = Released(Main)
    /\ Goto(Main, "anim_unlock")
    /\ UNCHANGED <<tree, config, ret, running, pause_event, seqTree>>

AnimExit ==
    /\ Alive /\ pc[Main] = "anim_unlock"
    /\ lock' = Released(Main)
    /\ Goto(Main, "anim_draw")
    /\ UNCHANGED <<tree, config, ret, loc, running, pause_event, seqTree>>

\* the drawing loop reads the listed nodes' bounds, level and load
AnimDraw ==
    /\ Alive /\ pc[Main] = "anim_draw"
    /\ SetLoc(Main, NoLocals)
    /\ Goto(Main, "idle")
    /\ UNCHANGED <<tree, config, ret, lock, running, pause_event, seqTree>>

\* a slider moved: slider_split_cb, slider_merge_cb, slider_decay_cb,
\* slider_interval_cb start with "with grid.lock"
SliderFields == {"split_threshold", "merge_threshold", "decay_factor", "decay_interval"}

ConcSliderVals(f) ==
    CASE f = "split_threshold" -> {[NoLocals EXCEPT !.field = f, !.val = 1]}
      [] f = "merge_threshold" -> {[NoLocals EXCEPT !.field = f, !.val = 2]}
      [] f = "decay_factor" -> {[NoLocals EXCEPT !.field = f, !.arg = [num |-> 1, den |-> 1]]}
      [] f = "decay_interval" -> {[NoLocals EXCEPT !.field = f, !.val = 10]}

SliderEnter(f) ==
    /\ Alive /\ pc[Main] = "idle"
    /\ CanAcquire(Main)
    /\ lock' = Acquired(Main)
    /\ \E l \in ConcSliderVals(f) : SetLoc(Main, l)
    /\ Goto(Main, "slider_write")
    /\ UNCHANGED <<tree, config, ret, running, pause_event, seqTree>>

\* the assignment, and the end of the block
SliderWrite ==
    /\ Alive /\ pc[Main] = "slider_write"
    /\ split_threshold' =
         IF loc[Main].field = "split_threshold" THEN loc[Main].val ELSE split_threshold
    /\ merge_threshold' =
         IF loc[Main].field = "merge_threshold" THEN loc[Main].val ELSE merge_threshold
    /\ decay_factor' =
         IF loc[Main].field = "decay_factor" THEN loc[Main].arg ELSE decay_factor
    /\ decay_interval' =
         IF loc[Main].field = "decay_interval" THEN loc[Main].val ELSE decay_interval
    /\ lock' = Released(Main)
    /\ Goto(Main, "slider_print")
    /\ UNCHANGED <<tree, max_level, ret, loc, running, pause_event, seqTree>>

\* print("Updated ... to", grid.<field>): reads the field; the split and
\* merge callbacks go on to grid.periodic_rebalance()
SliderPrint ==
    /\ Alive /\ pc[Main] = "slider_print"
    /\ IF loc[Main].field \in {"split_threshold", "merge_threshold"}
       THEN Goto(Main, "rebal_lock")
       ELSE Goto(Main, "idle")
    /\ SetLoc(Main, NoLocals)
    /\ UNCHANGED <<tree, config, ret, lock, running, pause_event, seqTree>>

TogglePause ==
    /\ Alive /\ pc[Main] = "idle"
    /\ pause_event' = ~pause_event
    /\ UNCHANGED <<tree, config, ret, lock, pc, loc, running, seqTree>>

\* the window closes: plt.show returns
CloseWindow ==
    /\ Alive /\ pc[Main] = "idle"
    /\ Goto(Main, "stop_controller")
    /\ UNCHANGED <<tree, config, ret, lock, loc, running, pause_event, seqTree>>

\* controller.stop(), decay_thread.stop()
Stop(t) ==
    /\ Alive /\ pc[Main] = (IF t = Controller THEN "stop_controller" ELSE "stop_decay")
    /\ running' = [running EXCEPT ![t] = FALSE]
    /\ Goto(Main, IF t = Controller THEN "join_controller" ELSE "join_decay")
    /\ UNCHANGED <<tree, config, ret, lock, loc, pause_event, seqTree>>

\* controller.join(), decay_thread.join(); after the last line the process
\* ends and takes the daemon writer threads with it
Join(t) ==
    /\ Alive /\ pc[Main] = (IF t = Controller THEN "join_controller" ELSE "join_decay")
    /\ pc[t] = "done"
    /\ Goto(Main, IF t = Controller THEN "stop_decay" ELSE "exited")
    /\ UNCHANGED <<tree, config, ret, lock, loc, running, pause_event, seqTree>>

ConcNext ==
    \/ \E t \in Writers : WPoll(t)
    \/ \E t \in Writers : WPauseSleep(t)
    \/ \E t \in Writers : SetEnter(t)
    \/ \E t \in Writers : SetFindAdd(t)
    \/ \E t \in Writers : SetRebalance(t)
    \/ \E t \in Writers : SubDistribute(t)
    \/ \E t \in Writers : SubZero(t)
    \/ \E t \in Writers : WSleep(t)
    \/ \E t \in Maintenance : LoopCheck(t)
    \/ DecaySleep
    \/ DecayEnter
    \/ DecayBody
    \/ ControllerSleep
    \/ ControllerPrintEnter
    \/ ControllerPrint
    \/ \E t \in {Controller, Main} : RebalEnter(t)
    \/ \E t \in {Controller, Main} : RebalNext(t)
    \/ \E t \in {Controller, Main} : MergeAssign(t)
    \/ AnimInvoke
    \/ AnimEnter
    \/ AnimGetLeavesEnter
    \/ AnimGather
    \/ AnimExit
    \/ AnimDraw
    \/ \E f \in SliderFields : SliderEnter(f)
    \/ SliderWrite
    \/ SliderPrint
    \/ TogglePause
    \/ CloseWindow
    \/ \E t \in Maintenance : Stop(t)
    \/ \E t \in Maintenance : Join(t)

ConcSpec == ConcInit /\ [][ConcNext]_vars

\* ------------------------------------------------------------- properties
LeafPaths(t) == {p \in DOMAIN t : is_leaf(t[p])}

Area(n) == (n.x_max - n.x_min) * (n.y_max - n.y_min)

Inside(n, m) ==
    /\ m.x_min <= n.x_min /\ n.x_max <= m.x_max
    /\ m.y_min <= n.y_min /\ n.y_max <= m.y_max

Overlap(n, m) ==
    /\ n.x_min < m.x_max /\ m.x_min < n.x_max
    /\ n.y_min < m.y_max /\ m.y_min < n.y_max

\* the leaves whose half-open bounds hold the point
LeavesAt(t, x, y) == {p \in LeafPaths(t) : contains(t[p], x, y)}

InRange(x) == 0 <= x /\ x < CoordRes

\* C1: in every reachable state the leaves' bounds tile the root's bounds:
\* every leaf is a non-empty rectangle inside the root's, no two leaves
\* overlap, and the leaves' areas add up to the root's area.
C1_Partition ==
    /\ \A p \in LeafPaths(tree) :
          /\ tree[p].x_min < tree[p].x_max /\ tree[p].y_min < tree[p].y_max
          /\ Inside(tree[p], tree[Root])
    /\ \A p, q \in LeafPaths(tree) : p # q => ~Overlap(tree[p], tree[q])
    /\ SumOver(LeafPaths(tree), [p \in LeafPaths(tree) |-> Area(tree[p])])
          = Area(tree[Root])

\* a tree two levels deep with seven leaves
C1_Witness ==
    /\ Cardinality(LeafPaths(tree)) >= 7
    /\ \E p \in LeafPaths(tree) : tree[p].level = 2

\* C2: no node is deeper than max_level, and a step turns a leaf into an
\* internal node only if the leaf's load, with the 1.0 the set added,
\* exceeds split_threshold and the leaf's level is below max_level.
C2_SplitGuard ==
    /\ [](\A p \in DOMAIN tree : tree[p].level <= max_level)
    /\ [][\A p \in DOMAIN tree :
            (is_leaf(tree[p]) /\ p \in DOMAIN tree' /\ ~is_leaf(tree'[p]))
            => /\ exceeds(tree[p].load + Unit, split_threshold)
               /\ tree[p].level < max_level]_vars

\* a leaf at level max_level whose load exceeds split_threshold: the cap
\* alone kept it from subdividing
C2_Witness ==
    \E p \in LeafPaths(tree) :
        /\ tree[p].level = max_level /\ tree[p].level > 0
        /\ exceeds(tree[p].load, split_threshold)

\* C3: every node's load is >= 0 and every internal node's load is 0, for
\* every construction configuration.
C3_LoadInvariant ==
    \A p \in DOMAIN tree :
        /\ tree[p].load >= 0
        /\ ~is_leaf(tree[p]) => tree[p].load = 0

\* C4: a get or set with a coordinate outside [0, 1) ends in ValueError and
\* leaves the tree and the configuration as they were; with both coordinates
\* inside [0, 1) it returns normally.
C4_Validation ==
    [][\A pt \in TestPoints :
         (Get(pt[1], pt[2]) \/ Set(pt[1], pt[2]))
         => IF InRange(pt[1]) /\ InRange(pt[2])
            THEN ret'.status = "ok"
            ELSE ret'.status = "ValueError" /\ tree' = tree /\ config' = config]_vars

\* a call was rejected on a tree that had already been subdivided
C4_Witness == ret.status = "ValueError" /\ ~is_leaf(tree[Root])

\* C5: a get at a valid point adds 1.0 to the load of the one leaf holding the
\* point and returns that load; no other node changes and no node appears or
\* disappears.
C5_GetEffect ==
    [][\A pt \in ValidPoints :
         Get(pt[1], pt[2])
         => /\ Cardinality(LeavesAt(tree, pt[1], pt[2])) = 1
            /\ DOMAIN tree' = DOMAIN tree
            /\ \A p \in DOMAIN tree :
                  tree'[p] = IF p \in LeavesAt(tree, pt[1], pt[2])
                             THEN [tree[p] EXCEPT !.load = @ + Unit]
                             ELSE tree[p]
            /\ \A p \in LeavesAt(tree, pt[1], pt[2]) :
                  ret'.value = tree[p].load + Unit]_vars

\* what C6 says a set leaves behind when leaf p holds the point
SetResult(t, p, max_lvl, split_thr) ==
    LET L == t[p].load + Unit
    IN IF exceeds(L, split_thr) /\ t[p].level < max_lvl
       THEN [q \in DOMAIN t \cup Kids(p) |->
               IF q = p THEN [t[p] EXCEPT !.load = 0, !.children = TRUE]
               ELSE IF q \in Kids(p)
                    THEN [Quadrant(t[p], q[Len(q)]) EXCEPT !.load = L \div 4]
                    ELSE t[q]]
       ELSE [t EXCEPT ![p].load = L]

\* Scenario A of C6, computed on the fresh default tree: set(0.5, 0.5) with
\* split_threshold 5 and max_level 6
RECURSIVE SetTimes(_, _)
SetTimes(t, n) == IF n = 0 THEN t ELSE set(SetTimes(t, n - 1), Half, Half, 6, 5)

FreshTree == [q \in {Root} |-> Node(0, 0, CoordRes, CoordRes, 0)]

ScenarioA ==
    /\ \A n \in 0 .. 5 : DOMAIN SetTimes(FreshTree, n) = {Root}
    /\ DOMAIN SetTimes(FreshTree, 6) = {Root} \cup Kids(Root)
    /\ SetTimes(FreshTree, 6)[Root].load = 0
    /\ \A q \in Kids(Root) : 2 * SetTimes(FreshTree, 6)[q].load = 3 * Unit

\* C6: a set at a valid point adds 1.0 to the load L of the leaf holding the
\* point and, iff the new load exceeds split_threshold and the leaf's level is
\* below max_level, replaces the leaf by an internal node of load 0 with four
\* leaf children at level+1 holding a quarter of the new load each; nothing
\* else changes, so one set subdivides at most one level.  Scenario A: with
\* split_threshold 5 the 6th set(0.5, 0.5) splits the root into four leaves
\* of load 1.5.
C6_SetEffect ==
    /\ [](ScenarioA)
    /\ [][\A pt \in ValidPoints :
            Set(pt[1], pt[2])
            => /\ Cardinality(LeavesAt(tree, pt[1], pt[2])) = 1
               /\ \A p \in LeavesAt(tree, pt[1], pt[2]) :
                     tree' = SetResult(tree, p, max_level, split_threshold)]_vars

\* C7: what a caller reads through the list get_leaves returned (bounds,
\* level, load, leaf status of each entry) is the same after the next
\* operation as before it.  A Node the step drops from the tree keeps the
\* fields it had, so only the nodes still in the tree are compared.
C7_SnapshotStable ==
    [][\A i \in DOMAIN ret.leaves :
         ret.leaves[i] \in DOMAIN tree' => tree'[ret.leaves[i]] = tree[ret.leaves[i]]]_vars

\* ---- properties of the threads
\* the labels inside the "with self.lock" block of set, decay_load,
\* periodic_rebalance and get_leaves
BodyLabels ==
    {"set_find", "set_rebalance", "sub_distribute", "sub_zero", "decay_body",
     "rebal_next", "merge_assign", "anim_gather"}

\* the labels at which a subdivide or a merge is half done
MidLabels == {"sub_distribute", "sub_zero", "merge_assign"}

InsideOp(t) == pc[t] \in BodyLabels

\* an internal node that still carries load: children installed, own load not
\* yet handed down and zeroed
HalfSubdivided(t) == \E p \in DOMAIN t : ~is_leaf(t[p]) /\ t[p].load # 0

\* C8: a thread inside the body of a public operation holds the lock, so no
\* two threads are inside at once; a node is half subdivided or half merged
\* only while the thread doing it holds the lock, so no other operation reads
\* it; and whenever the lock is free the tree equals the result of running
\* the operations one after another in the order they took the lock.
C8_Atomicity ==
    /\ \A t \in Tasks : InsideOp(t) => lock.owner = t /\ lock.count >= 1
    /\ \A t, u \in Tasks : InsideOp(t) /\ InsideOp(u) => t = u
    /\ (HalfSubdivided(tree) \/ \E t \in Tasks : pc[t] \in MidLabels)
          => \E t \in Tasks : pc[t] \in MidLabels /\ lock.owner = t
    /\ lock.owner = NoTask => tree = seqTree /\ ~HalfSubdivided(tree)

\* a writer is half way through a subdivision while the other writer and the
\* decay thread wait for the lock
C8_Witness ==
    \E t \in Writers :
        /\ pc[t] = "sub_zero" /\ HalfSubdivided(tree)
        /\ \E u \in Writers \ {t} : pc[u] = "call_set"
        /\ pc[Decay] = "decay_lock"

\* the labels whose next statement reads or writes split_threshold,
\* merge_threshold, decay_factor or decay_interval
ConfigAccess(t) ==
    \/ t = Decay /\ pc[t] = "sleep"
    \/ t = Controller /\ pc[t] = "print"
    \/ t = Main /\ pc[t] \in {"slider_write", "slider_print"}
    \/ pc[t] \in {"set_rebalance", "rebal_next"}

\* C9: a thread about to read or write a configuration field holds the lock.
C9_ConfigUnderLock == \A t \in Tasks : ConfigAccess(t) => lock.owner = t

ShutdownLabels ==
    {"stop_controller", "join_controller", "stop_decay", "join_decay", "exited"}

\* stop was requested: stop() was called on the thread; for a writer, which
\* has no stop(), the program has begun to stop its tasks
StopRequested(t) ==
    IF t \in Maintenance THEN ~running[t] ELSE pc[Main] \in ShutdownLabels

LoopHead(t) == IF t \in Maintenance THEN "check" ELSE "poll"

C11_LoadAccounting ==
    [][/\ \A pt \in ValidPoints :
            (Get(pt[1], pt[2]) \/ Set(pt[1], pt[2]))
            => LeafLoad(tree') = LeafLoad(tree) + Unit
       /\ (PeriodicRebalance \/ GetLeaves) => LeafLoad(tree') = LeafLoad(tree)]_vars

\* every coordinate validate_coord accepts
Coords == 0 .. CoordRes - 1

\* C12: in every reachable tree, for every point that passes validation and
\* lies in the configured rectangle (the root's bounds), _find_leaf returns a
\* leaf whose half-open bounds hold the point: the descent never stops at an
\* internal node for want of a matching child.
C12_Containment ==
    \A x \in Coords, y \in Coords :
        contains(tree[Root], x, y)
        => /\ is_leaf(tree[find_leaf(tree, x, y)])
           /\ contains(tree[find_leaf(tree, x, y)], x, y)

\* a tree two levels deep over a rectangle that covers part of the unit
\* square, the root carrying load from a lookup outside the rectangle
C12_Witness ==
    /\ tree[Root].x_max < CoordRes
    /\ \E p \in LeafPaths(tree) : tree[p].level = 2
    /\ tree[Root].load > 0

\* a step that runs periodic_rebalance: the call itself, or a slider callback
\* that ends with it
Sweep ==
    \/ PeriodicRebalance
    \/ \E val \in SplitChoices : SliderSplitCb(val)
    \/ \E val \in MergeChoices : SliderMergeCb(val)

\* Scenario C of C13: the root with four leaf children of load 1.0 each
ScenarioCTree == subdivide([FreshTree EXCEPT ![Root].load = 4 * Unit], Root)

ScenarioC ==
    /\ \A q \in Kids(Root) : is_leaf(ScenarioCTree[q])
    /\ ChildLoadSum(ScenarioCTree, Root) = 4 * Unit
    /\ periodic_rebalance(ScenarioCTree, 10) = [FreshTree EXCEPT ![Root].load = 4 * Unit]

\* C13: when periodic_rebalance returns, no node of the tree satisfies
\* can_merge(merge_threshold), and running it again at once changes nothing.
\* Scenario C: four leaf children with loads summing to 4 and merge_threshold
\* 10 merge into a leaf of load 4.
C13_MergeFixpoint ==
    /\ [](ScenarioC)
    /\ [][Sweep
          => /\ \A p \in DOMAIN tree' : ~can_merge(tree', p, merge_threshold')
             /\ periodic_rebalance(tree', merge_threshold') = tree']_vars

\* a tree two levels deep in which one sweep cascades: it merges a node at
\* level 1 and, its children all leaves by then, the root after it
C13_Witness ==
    /\ \E p \in DOMAIN tree : tree[p].level = 2
    /\ ~can_merge(tree, Root, merge_threshold)
    /\ is_leaf(periodic_rebalance(tree, merge_threshold)[Root])

\* the shape of a tree: which nodes exist, which of them are leaves, and the
\* bounds and level of each
Shape(t) == [p \in DOMAIN t |-> [t[p] EXCEPT !.load = 0]]

Range(s) == {s[i] : i \in DOMAIN s}

\* C14: a leaf becomes internal only in a set, and nodes are added only then;
\* an internal node becomes a leaf only in the traversal of periodic_rebalance,
\* as a node the traversal found can_merge true for, and nodes are removed only
\* then; get, decay_load and get_leaves leave the shape as it was; the root is
\* always there, at level 0, with the bounds it was built with.
C14_Transitions ==
    /\ [](Root \in DOMAIN tree /\ tree[Root].level = 0)
    /\ [][/\ (\E p \in DOMAIN tree' :
                 p \notin DOMAIN tree \/ (is_leaf(tree[p]) /\ ~is_leaf(tree'[p])))
             => \E pt \in ValidPoints : Set(pt[1], pt[2])
          /\ (\E p \in DOMAIN tree : p \notin DOMAIN tree') => Sweep
          /\ \A p \in DOMAIN tree :
                (~is_leaf(tree[p]) /\ p \in DOMAIN tree' /\ is_leaf(tree'[p]))
                => /\ Sweep
                   /\ p \in Range(merge_order(tree, Root, merge_threshold').merged)
          /\ ((\E pt \in TestPoints : Get(pt[1], pt[2])) \/ DecayLoad \/ GetLeaves)
             => Shape(tree') = Shape(tree)
          /\ Node(tree'[Root].x_min, tree'[Root].y_min, tree'[Root].x_max,
                  tree'[Root].y_max, 0)
             = Node(tree[Root].x_min, tree[Root].y_min, tree[Root].x_max,
                    tree[Root].y_max, 0)]_vars

\* a tree in which both transitions have a subject: a node at level 1 that a
\* set made internal and that the next sweep will merge, beside a leaf with
\* load on it
C14_Witness ==
    /\ \E p \in DOMAIN tree :
          tree[p].level = 1 /\ can_merge(tree, p, merge_threshold)
    /\ \E q \in LeafPaths(tree) : tree[q].level = 1 /\ tree[q].load > 0

\* the sum of the loads of the leaves at or below p
SubLeafLoad(t, p) ==
    SumOver({q \in LeafPaths(t) : IsPrefix(p, q)}, [q \in DOMAIN t |-> t[q].load])

\* p can be collapsed level by level: each child is a leaf or can itself be
\* collapsed first, and the loads below p sum to less than thr
RECURSIVE Collapsible(_, _, _)
Collapsible(t, p, thr) ==
    /\ ~is_leaf(t[p])
    /\ \A q \in Kids(p) : is_leaf(t[q]) \/ Collapsible(t, q, thr)
    /\ SubLeafLoad(t, p) \div Unit < thr

\* thresholds the merge slider offers (1 to 20), and 0
SomeThresholds == {0, 1, 2, 10, 20}

\* all four children of p are leaves and their loads sum to exactly thr
AtThreshold(t, p, thr) ==
    /\ ~is_leaf(t[p])
    /\ \A q \in Kids(p) : is_leaf(t[q])
    /\ ChildLoadSum(t, p) \div Unit = thr /\ ChildLoadSum(t, p) % Unit = 0

\* C15: can_merge is false for a leaf and for a node with an internal child,
\* whatever the loads and the threshold; every node a sweep of
\* periodic_rebalance turns into a leaf had, when it was merged, four leaf
\* children (leaves before the sweep, or merged earlier in it) whose loads
\* summed to strictly less than merge_threshold, and it gets that sum as its
\* load; a node whose children's loads sum to exactly merge_threshold is left
\* as it is.
C15_MergeLocality ==
    /\ [](\A p \in DOMAIN tree, thr \in SomeThresholds :
            (is_leaf(tree[p]) \/ \E k \in Keys : ~is_leaf(tree[Child(p, k)]))
            => ~can_merge(tree, p, thr))
    /\ [][Sweep
          => \A p \in DOMAIN tree :
                /\ (~is_leaf(tree[p]) /\ p \in DOMAIN tree' /\ is_leaf(tree'[p]))
                   => /\ Collapsible(tree, p, merge_threshold')
                      /\ tree'[p].load = SubLeafLoad(tree, p)
                /\ AtThreshold(tree, p, merge_threshold')
                   => p \in DOMAIN tree' /\ ~is_leaf(tree'[p])]_vars

\* a node with four leaf children whose loads sum to exactly merge_threshold,
\* beside a sibling that is internal
C15_Witness ==
    \E p \in DOMAIN tree :
        /\ AtThreshold(tree, p, merge_threshold)
        /\ \E q \in DOMAIN tree : Len(q) = Len(p) /\ q # p /\ ~is_leaf(tree[q])

\* ------------------------------------------------------------- decay alone
\* The grid with its writers quiet: the only calls are decay_load, made by
\* the decay thread with the current decay_factor, and the decay slider.
\* The tree at the start is what n calls of set(0.5, 0.5) leave on the
\* default grid (split_threshold 5, max_level 6): a root leaf of load n, or,
\* after the 6th, the root with four leaves of load 1.5.
DecayFactors ==
    {[num |-> 9, den |-> 10], [num |-> 1, den |-> 2], [num |-> 1, den |-> 1],
     [num |-> 1, den |-> 1048576]}

DecayInit ==
    /\ \E n \in 0 .. 6 : tree = SetTimes(FreshTree, n)
    /\ max_level = 6
    /\ split_threshold = 5
    /\ merge_threshold = 2
    /\ decay_factor \in DecayFactors
    /\ decay_interval = 10
    /\ ret = Returned(None, <<>>)
    /\ ThreadsInit

DecayNext ==
    \/ DecayLoad
    \/ \E val \in DecayFactors : SliderDecayCb(val)

DecaySpec == DecayInit /\ [][DecayNext]_vars

\* the product load * f, rounded down to a whole number of quanta
ExactProduct(load, f) == (load \div f.den) * f.num + ((load % f.den) * f.num) \div f.den

\* C16: a decay_load(factor) with factor in (0, 1] gives every leaf the load
\* product = previous load * factor (the float product: the exact one less a
\* rounding error below Grid quanta) if product >= 1e-6, and 0 otherwise; so
\* no load is negative or strictly between 0 and 1e-6 afterwards; internal
\* nodes keep their loads, and the shape stays as it was.
C16_DecayStep ==
    [][DecayLoad
       => /\ Shape(tree') = Shape(tree)
          /\ \A p \in DOMAIN tree :
                IF is_leaf(tree[p])
                THEN /\ tree'[p].load >= 0
                     /\ ~(0 < tree'[p].load /\ tree'[p].load < ClampBelow)
                     /\ \E product \in {times(tree[p].load, decay_factor)} :
                           /\ product <= ExactProduct(tree[p].load, decay_factor)
                           /\ product > ExactProduct(tree[p].load, decay_factor) - Grid
                           /\ tree'[p].load = IF product >= ClampBelow THEN product ELSE 0
                ELSE tree'[p].load = tree[p].load]_vars

\* a tree with an internal root and four leaves whose loads a decay has
\* brought down to the last value above 1e-6 the model tells apart
C16_Witness ==
    /\ ~is_leaf(tree[Root])
    /\ \A q \in Kids(Root) :
          tree[q].load >= ClampBelow /\ tree[q].load < ClampBelow + Grid
    /\ decay_factor.num < decay_factor.den

\* Scenario D of C17: the loads of a lone root leaf that starts at 1.0, after
\* 0, 1, 2, ... calls of decay_load(0.9)
\* one more call: the list of loads so far, with the next load appended
AppendDecay(s) ==
    Append(s, decay_load([FreshTree EXCEPT ![Root].load = s[Len(s)]],
                         [num |-> 9, den |-> 10])[Root].load)

AppendDecay8(s) ==
    AppendDecay(AppendDecay(AppendDecay(AppendDecay(
        AppendDecay(AppendDecay(AppendDecay(AppendDecay(s))))))))

\* the list after 32, 64, ... 160 calls
ScenarioDLoads32 == AppendDecay8(AppendDecay8(AppendDecay8(AppendDecay8(<<Unit>>))))

ScenarioDLoads64 == AppendDecay8(AppendDecay8(AppendDecay8(AppendDecay8(ScenarioDLoads32))))

ScenarioDLoads96 == AppendDecay8(AppendDecay8(AppendDecay8(AppendDecay8(ScenarioDLoads64))))

ScenarioDLoads128 == AppendDecay8(AppendDecay8(AppendDecay8(AppendDecay8(ScenarioDLoads96))))

ScenarioDLoads == AppendDecay8(AppendDecay8(AppendDecay8(AppendDecay8(ScenarioDLoads128))))

ScenarioD ==
    /\ \A n \in 1 .. 100 : ScenarioDLoads[n + 1] < ScenarioDLoads[n]
    /\ \E k \in 2 .. Len(ScenarioDLoads) :
          /\ \A j \in 1 .. k - 1 : ScenarioDLoads[j] >= ClampBelow
          /\ ExactProduct(ScenarioDLoads[k - 1], [num |-> 9, den |-> 10]) < ClampBelow + Grid
          /\ \A j \in k .. Len(ScenarioDLoads) : ScenarioDLoads[j] = 0

\* C17: from a leaf load of 1.0, each of 100 successive decay_load(0.9) makes
\* the load strictly smaller; the load becomes 0 at the first application
\* whose product is below 1e-6 and is 0 from then on.  In every decay step
\* with factor 0.9 a positive leaf load gets strictly smaller, becomes 0 only
\* if the product is below 1e-6, and a load of 0 stays 0.
C17_RepeatedDecay ==
    /\ [](ScenarioD)
    /\ [][(DecayLoad /\ decay_factor = [num |-> 9, den |-> 10])
          => \A p \in LeafPaths(tree) :
                /\ tree[p].load > 0 => tree'[p].load < tree[p].load
                /\ (tree[p].load > 0 /\ tree'[p].load = 0)
                   => ExactProduct(tree[p].load, decay_factor) < ClampBelow + Grid
                /\ tree[p].load = 0 => tree'[p].load = 0]_vars

\* the root leaf after the 100th application in a row, its load still above
\* 1e-6
C17_Witness ==
    /\ is_leaf(tree[Root])
    /\ tree[Root].load = ScenarioDLoads[101]
    /\ tree[Root].load >= ClampBelow
    /\ decay_factor = [num |-> 9, den |-> 10]

\* ------------------------------------------------------------- threads, scheduled fairly
\* Parts of the program of __main__ while its window stays open, under a fair
\* scheduler: a thread that can take a step eventually takes one, and a thread
\* waiting for the lock gets it if the lock is free again and again.
WriterStep(t) ==
    \/ WPoll(t) \/ WPauseSleep(t) \/ SetFindAdd(t) \/ SetRebalance(t)
    \/ SubDistribute(t) \/ SubZero(t) \/ WSleep(t)

DecayStep == LoopCheck(Decay) \/ DecaySleep \/ DecayBody

ControllerStep ==
    \/ LoopCheck(Controller) \/ ControllerSleep \/ ControllerPrint
    \/ RebalNext(Controller) \/ MergeAssign(Controller)

AnimStep == AnimInvoke \/ AnimGetLeavesEnter \/ AnimGather \/ AnimExit \/ AnimDraw

WriterFairness == \A t \in Writers : WF_vars(WriterStep(t)) /\ SF_vars(SetEnter(t))

DecayFairness == WF_vars(DecayStep) /\ SF_vars(DecayEnter)

ControllerFairness ==
    /\ WF_vars(ControllerStep)
    /\ SF_vars(ControllerPrintEnter) /\ SF_vars(RebalEnter(Controller))

AnimFairness == WF_vars(AnimStep) /\ SF_vars(AnimEnter)

\* ---- the writers, the decay thread and the pause button.  Nothing obliges
\* the user to press the button.
PauseNext ==
    \/ \E t \in Writers : WPoll(t)
    \/ \E t \in Writers : WPauseSleep(t)
    \/ \E t \in Writers : SetEnter(t)
    \/ \E t \in Writers : SetFindAdd(t)
    \/ \E t \in Writers : SetRebalance(t)
    \/ \E t \in Writers : SubDistribute(t)
    \/ \E t \in Writers : SubZero(t)
    \/ \E t \in Writers : WSleep(t)
    \/ LoopCheck(Decay)
    \/ DecaySleep
    \/ DecayEnter
    \/ DecayBody
    \/ TogglePause

PauseSpec == ConcInit /\ [][PauseNext]_vars /\ WriterFairness /\ DecayFairness

\* ---- every thread that takes the lock: the writers (never paused), the
\* decay thread, the controller, and the animation timer of the main thread
LockNext ==
    \/ \E t \in Writers : WPoll(t)
    \/ \E t \in Writers : SetEnter(t)
    \/ \E t \in Writers : SetFindAdd(t)
    \/ \E t \in Writers : SetRebalance(t)
    \/ \E t \in Writers : SubDistribute(t)
    \/ \E t \in Writers : SubZero(t)
    \/ \E t \in Writers : WSleep(t)
    \/ \E t \in Maintenance : LoopCheck(t)
    \/ DecaySleep
    \/ DecayEnter
    \/ DecayBody
    \/ ControllerSleep
    \/ ControllerPrintEnter
    \/ ControllerPrint
    \/ RebalEnter(Controller)
    \/ RebalNext(Controller)
    \/ MergeAssign(Controller)
    \/ AnimInvoke
    \/ AnimEnter
    \/ AnimGetLeavesEnter
    \/ AnimGather
    \/ AnimExit
    \/ AnimDraw

LockSpec ==
    /\ ConcInit /\ [][LockNext]_vars
    /\ WriterFairness /\ DecayFairness /\ ControllerFairness /\ AnimFairness

\* where a writer is between two calls of set
Quiet == {"poll", "pause_sleep", "sleep"}

\* C18: a writer enters a call of set only from its poll of pause_event, and
\* only if the poll found the signal clear; a poll that finds it set leads to
\* the 0.1 s sleep and back to the poll.  So while the signal stays set a
\* writer that is between calls stays between calls, and a writer inside a call
\* (past its poll) finishes that one call and starts no other.  Once the signal
\* is clear every writer calls set again, unless the signal is set again first.
C18_Pause ==
    /\ [][\A t \in Writers :
            /\ (pc'[t] = "call_set" /\ pc[t] # "call_set")
               => (pc[t] = "poll" /\ ~pause_event)
            /\ (pc[t] = "poll" /\ pause_event /\ pc'[t] # "poll")
               => pc'[t] = "pause_sleep"
            /\ (pc[t] = "pause_sleep" /\ pc'[t] # "pause_sleep") => pc'[t] = "poll"
            /\ (pause_event /\ pause_event' /\ pc[t] \in Quiet) => pc'[t] \in Quiet
            /\ (pc[t] \notin Quiet /\ pc'[t] \in Quiet) => pc'[t] = "sleep"]_vars
    /\ \A t \in Writers : (~pause_event) ~> (pause_event \/ pc[t] = "call_set")

\* the signal is set; one writer sleeps on it, the other, past its poll, is
\* inside the one call of set it still makes
C18_Witness ==
    /\ pause_event
    /\ \E t \in Writers :
          /\ pc[t] = "pause_sleep"
          /\ \E u \in Writers \ {t} : pc[u] = "sub_distribute"

\* the labels at which a thread is in time.sleep
SleepLabels == {"sleep", "pause_sleep"}

\* the labels at which a thread that holds the lock is about to take it again:
\* set calling _find_leaf, update_anim calling get_leaves
ReentryLabels == {"set_find", "anim_call"}

\* the labels from the call of a public operation (the thread may be waiting
\* for the lock) to the last statement of its body: set, decay_load,
\* periodic_rebalance, get_leaves inside update_anim's own lock block
CallLabels ==
    {"call_set", "set_find", "set_rebalance", "sub_distribute", "sub_zero",
     "decay_lock", "decay_body", "rebal_lock", "rebal_next", "merge_assign",
     "anim_lock", "anim_call", "anim_gather", "anim_unlock"}

\* C19: no thread is in a sleep while it holds the lock; a thread that holds
\* the lock and asks for it again gets it at once; and under fair scheduling
\* no thread stays in a call for ever: every call of set by a writer, of
\* decay_load by the decay thread, of periodic_rebalance by the controller and
\* of get_leaves by update_anim gets the lock and returns.
C19_DeadlockFreedom ==
    /\ [](\A t \in Tasks : pc[t] \in SleepLabels => lock.owner # t)
    /\ [](\A t \in Tasks : pc[t] \in ReentryLabels => lock.owner = t /\ CanAcquire(t))
    /\ \A t \in Tasks : []<>(pc[t] \notin CallLabels)

\* update_anim holds the lock twice over, inside get_leaves, while both
\* writers, the decay thread and the controller wait for it
C19_Witness ==
    /\ pc[Main] = "anim_gather" /\ lock = [owner |-> Main, count |-> 2]
    /\ \A t \in Writers : pc[t] = "call_set"
    /\ pc[Decay] = "decay_lock"
    /\ pc[Controller] = "rebal_lock"

\* ------------------------------------------------------------- writers paused
\* The program after "Pause Workers": pause_event is set and stays set, every
\* writer goes round its poll, and the decay thread and the controller keep
\* running under a fair scheduler.  The tree at the start is any tree that up
\* to MaxLoad calls of get and set leave behind, on either rectangle, with
\* split_threshold 1 and max_level MaxLevelCap.
RECURSIVE TreesWithin(_, _)
TreesWithin(S, n) ==
    IF n = 0 THEN S
    ELSE TreesWithin(S \cup {get(t, pt[1], pt[2]) : t \in S, pt \in ValidPoints}
                       \cup {set(t, pt[1], pt[2], MaxLevelCap, 1) : t \in S, pt \in ValidPoints},
                     n - 1)

CoarsenTrees ==
    TreesWithin({[q \in {Root} |-> Node(b[1], b[2], b[3], b[4], 0)] : b \in BoundsChoices},
                MaxLoad)

CoarsenInit ==
    /\ tree \in CoarsenTrees
    /\ max_level = MaxLevelCap
    /\ split_threshold = 1
    /\ merge_threshold \in MergeChoices
    /\ decay_factor = [num |-> 1, den |-> 1048576]
    /\ decay_interval = 10
    /\ ret = Returned(None, <<>>)
    /\ lock = Unlocked
    /\ pc = [t \in Tasks |->
               IF t \in Writers THEN "poll" ELSE IF t = Main THEN "idle" ELSE "check"]
    /\ loc = [t \in Tasks |-> NoLocals]
    /\ running = [t \in Maintenance |-> TRUE]
    /\ pause_event = TRUE
    /\ seqTree = tree

CoarsenNext ==
    \/ \E t \in Writers : WPoll(t)
    \/ \E t \in Writers : WPauseSleep(t)
    \/ \E t \in Maintenance : LoopCheck(t)
    \/ DecaySleep
    \/ DecayEnter
    \/ DecayBody
    \/ ControllerSleep
    \/ ControllerPrintEnter
    \/ ControllerPrint
    \/ RebalEnter(Controller)
    \/ RebalNext(Controller)
    \/ MergeAssign(Controller)

CoarsenSpec ==
    CoarsenInit /\ [][CoarsenNext]_vars /\ DecayFairness /\ ControllerFairness

\* C20: with the writers paused, decay_factor below 1 and merge_threshold
\* above 0, and the decay thread and the controller scheduled fairly, the tree
\* ends up as the root alone, a leaf of load 0, and stays that way.
C20_Coarsening ==
    /\ [](pause_event /\ decay_factor.num < decay_factor.den /\ merge_threshold > 0)
    /\ <>[](DOMAIN tree = {Root} /\ is_leaf(tree[Root]) /\ tree[Root].load = 0)

\* coarsening under way on a tree two levels deep whose loads have all decayed
\* to 0: the controller's sweep has two merges to make, a node at level 1 and
\* then the root
C20_Witness ==
    /\ pc[Controller] = "rebal_next" /\ lock.owner = Controller
    /\ Len(loc[Controller].todo) = 2 /\ loc[Controller].todo[2] = Root
    /\ \E p \in DOMAIN tree : tree[p].level = 2
    /\ AllLoad(tree) = 0

====
